---- MODULE Spec2Model ----
(***************************************************************************)
(* BenchmarkingSystem of backend/app/services/benchmarking.py: the list of *)
(* benchmark tests, the three mutating calls (create_benchmark_test,       *)
(* run_ai_benchmark, record_human_results), the comparison formula and the *)
(* leaderboard.                                                            *)
(*                                                                         *)
(* Python dicts are functions with string domains; a key that was never    *)
(* assigned is outside the DOMAIN, a key holding None maps to None.        *)
(* Numbers are exact rationals [n, d] in lowest terms (floating-point      *)
(* rounding is not modelled).  The wall clock is counted in ticks of       *)
(* TickLen tenths of a second.                                             *)
(***************************************************************************)
EXTENDS Integers, Sequences, FiniteSets, TLC

VARIABLES tests, now, last, calls

vars == <<tests, now, last, calls>>

(* ---------------------------- bounds ----------------------------------- *)

\* most tests ever created
MaxTests == 2
\* last tick of the wall clock
MaxClock == 1
\* most calls made to the registry in one run
MaxCalls == 4
\* length of one clock tick, in tenths of a second (50 = 5 s)
TickLen == 50

(* --------------------------- rationals --------------------------------- *)

Abs(x) == IF x < 0 THEN -x ELSE x

RECURSIVE GCD(_, _)
GCD(a, b) == IF b = 0 THEN a ELSE GCD(b, a % b)

\* n / d in lowest terms, d > 0
Rat(n, d) ==
    LET s == IF d < 0 THEN -1 ELSE 1
        g == GCD(Abs(n), Abs(d))
    IN  [n |-> (s * n) \div g, d |-> (s * d) \div g]

RatInt(k) == [n |-> k, d |-> 1]
RatAdd(x, y) == Rat(x.n * y.d + y.n * x.d, x.d * y.d)
RatSub(x, y) == Rat(x.n * y.d - y.n * x.d, x.d * y.d)
RatMul(x, y) == Rat(x.n * y.n, x.d * y.d)
RatDiv(x, y) == Rat(x.n * y.d, x.d * y.n)
RatLess(x, y) == x.n * y.d < y.n * x.d
RatMax(x, y) == IF RatLess(x, y) THEN y ELSE x

(* ----------------------------- dicts ----------------------------------- *)

None == [None |-> TRUE]
EmptyDict == [k \in {} |-> None]

\* d.get(k, default)
Get(d, k, default) == IF k \in DOMAIN d THEN d[k] ELSE default

\* d[k] = v
Put(d, k, v) == [x \in DOMAIN d \cup {k} |-> IF x = k THEN v ELSE d[x]]

\* d.get(k) == s for a string s (a missing key gives None, which equals no string)
GetIs(d, k, s) == k \in DOMAIN d /\ d[k] = s

\* truth value of d.get(k): neither missing, None nor an empty dict
Truthy(d, k) == k \in DOMAIN d /\ d[k] # None /\ d[k] # EmptyDict

(* ----------------------------- clock ----------------------------------- *)

\* time.time(), in seconds
TimeNow(t) == Rat(t * TickLen, 10)

\* int(x) of a non-negative float
IntOf(x) == x.n \div x.d

\* datetime.now().isoformat()
IsoFormat(t) == "T+" \o ToString(IntOf(TimeNow(t))) \o "." \o ToString((t * TickLen) % 10)

\* f"bench_{int(time.time())}"
BenchId(t) == "bench_" \o ToString(IntOf(TimeNow(t)))

(* ----------------------------- inputs ---------------------------------- *)

TestTypes == {"tax_preparation", "audit_defense", "research", "custom"}
Scenarios == {"scenario_1"}
Complexities == {"high"}

\* ids a caller may pass: every id the clock can produce, and one it cannot
IdArgs == {BenchId(t) : t \in 0..MaxClock} \cup {"bench_unknown"}

\* human_results a caller may pass
HumanInputs ==
    { [time_taken |-> RatInt(10800), accuracy_score |-> Rat(95, 100)],
      [time_taken |-> RatInt(0), accuracy_score |-> Rat(98, 100)],
      EmptyDict }

(* --------------------------- the registry ------------------------------ *)

\* _get_test falling back to the first test when no id matches
_get_test_or_first(ts, test_id) ==
    LET hits == {i \in 1..Len(ts) : ts[i]["test_id"] = test_id}
    IN  IF hits = {} THEN (IF ts = <<>> THEN 0 ELSE 1)
        ELSE CHOOSE i \in hits : \A j \in hits : i <= j

\* _get_test: the position of the first test holding test_id, 0 for None
_get_test(ts, test_id) ==
    LET hits == {i \in 1..Len(ts) : ts[i]["test_id"] = test_id}
    IN  IF hits = {} THEN 0 ELSE CHOOSE i \in hits : \A j \in hits : i <= j

\* the dict create_benchmark_test builds at clock t
NewTest(t, test_type, scenario, complexity) ==
    [test_id |-> BenchId(t),
     test_type |-> test_type,
     scenario |-> scenario,
     complexity |-> complexity,
     created_at |-> IsoFormat(t),
     status |-> "pending",
     ai_results |-> None,
     human_results |-> None]

\* the simulated result with None for a test type it does not know
AiResultNoneForUnknown(test_type, elapsed) ==
    IF test_type = "tax_preparation" THEN
        [time_taken |-> elapsed,
         accuracy_score |-> Rat(98, 100),
         completeness |-> RatInt(1),
         optimizations_found |-> RatInt(12),
         errors |-> RatInt(0),
         tax_saved |-> RatInt(8500)]
    ELSE IF test_type = "audit_defense" THEN
        [time_taken |-> elapsed,
         response_quality |-> Rat(95, 100),
         legal_citations |-> RatInt(15),
         strategy_completeness |-> Rat(97, 100),
         estimated_success_rate |-> Rat(82, 100)]
    ELSE IF test_type = "research" THEN
        [time_taken |-> elapsed,
         sources_found |-> RatInt(23),
         relevance_score |-> Rat(94, 100),
         depth_of_analysis |-> Rat(96, 100)]
    ELSE
        None

\* the result run_ai_benchmark simulates for a test type; elapsed is
\* time.time() - start_time
AiResult(test_type, elapsed) ==
    IF test_type = "tax_preparation" THEN
        [time_taken |-> elapsed,
         accuracy_score |-> Rat(98, 100),
         completeness |-> RatInt(1),
         optimizations_found |-> RatInt(12),
         errors |-> RatInt(0),
         tax_saved |-> RatInt(8500)]
    ELSE IF test_type = "audit_defense" THEN
        [time_taken |-> elapsed,
         response_quality |-> Rat(95, 100),
         legal_citations |-> RatInt(15),
         strategy_completeness |-> Rat(97, 100),
         estimated_success_rate |-> Rat(82, 100)]
    ELSE IF test_type = "research" THEN
        [time_taken |-> elapsed,
         sources_found |-> RatInt(23),
         relevance_score |-> Rat(94, 100),
         depth_of_analysis |-> Rat(96, 100)]
    ELSE
        [error |-> "Unknown test type"]

\* the floor under the AI time in speed_multiplier: 0.1 s
SpeedFloor == Rat(1, 10)

\* _calculate_comparison raises AttributeError when only the human side is None
ComparisonRaisesHumanOnly(test) ==
    Get(test, "human_results", EmptyDict) = None

\* _calculate_comparison raises AttributeError when a side is None: the key
\* exists, so .get returns None and None has no .get
ComparisonRaises(test) ==
    \/ Get(test, "ai_results", EmptyDict) = None
    \/ Get(test, "human_results", EmptyDict) = None

\* speed_advantage with ties going to the AI
SpeedAdvantageTiesToAi(ai, human) ==
    IF ~RatLess(Get(human, "time_taken", RatInt(999)), Get(ai, "time_taken", RatInt(0)))
    THEN "AI" ELSE "Human"

SpeedAdvantage(ai, human) ==
    IF RatLess(Get(ai, "time_taken", RatInt(0)), Get(human, "time_taken", RatInt(999)))
    THEN "AI" ELSE "Human"

\* speed_multiplier with a floor of one second
SpeedMultiplierFloorOne(ai, human) ==
    RatDiv(Get(human, "time_taken", RatInt(1)),
           RatMax(Get(ai, "time_taken", RatInt(1)), RatInt(1)))

SpeedMultiplier(ai, human) ==
    RatDiv(Get(human, "time_taken", RatInt(1)),
           RatMax(Get(ai, "time_taken", RatInt(1)), SpeedFloor))

AccuracyComparison(ai, human) ==
    [ai |-> Get(ai, "accuracy_score", RatInt(0)),
     human |-> Get(human, "accuracy_score", RatInt(0)),
     winner |->
        IF RatLess(Get(human, "accuracy_score", RatInt(0)),
                   Get(ai, "accuracy_score", RatInt(0)))
        THEN "AI" ELSE "Human"]

\* cost_comparison with the savings clamped at zero
CostComparisonClamped(ai, human) ==
    LET ai_cost == RatMul(Get(ai, "time_taken", RatInt(0)), Rat(1, 100))
        human_cost ==
            RatMul(RatDiv(Get(human, "time_taken", RatInt(0)), RatInt(3600)), RatInt(150))
    IN  [ai_cost |-> ai_cost,
         human_cost |-> human_cost,
         savings |-> RatMax(RatSub(human_cost, ai_cost), RatInt(0))]

CostComparison(ai, human) ==
    [ai_cost |-> RatMul(Get(ai, "time_taken", RatInt(0)), Rat(1, 100)),
     human_cost |->
        RatMul(RatDiv(Get(human, "time_taken", RatInt(0)), RatInt(3600)), RatInt(150)),
     savings |->
        RatSub(RatMul(RatDiv(Get(human, "time_taken", RatInt(0)), RatInt(3600)),
                      RatInt(150)),
               RatMul(Get(ai, "time_taken", RatInt(0)), Rat(1, 100)))]

\* _calculate_comparison, for a test on which it does not raise
_calculate_comparison(test) ==
    LET ai == Get(test, "ai_results", EmptyDict)
        human == Get(test, "human_results", EmptyDict)
    IN  [speed_advantage |-> SpeedAdvantage(ai, human),
         speed_multiplier |-> SpeedMultiplier(ai, human),
         accuracy_comparison |-> AccuracyComparison(ai, human),
         cost_comparison |-> CostComparison(ai, human),
         overall_winner |-> "AI"]

NotFound == [error |-> "Test not found"]
AttributeError == [exception |-> "AttributeError"]

\* what the last call returned (raised = FALSE) or raised (raised = TRUE)
Returned(op, arg, value) == [op |-> op, arg |-> arg, raised |-> FALSE, value |-> value]
Raised(op, arg, exc) == [op |-> op, arg |-> arg, raised |-> TRUE, value |-> exc]

(* ---------------------------- operations ------------------------------- *)

\* __init__: no tests; self.results is never read or written afterwards
Init ==
    /\ tests = <<>>
    /\ now = 0
    /\ last = Returned("__init__", "", None)
    /\ calls = 0

\* create_benchmark_test putting the new test at the head of the list
create_benchmark_test_at_head(test_type, scenario, complexity) ==
    /\ Len(tests) < MaxTests
    /\ LET test == NewTest(now, test_type, scenario, complexity)
       IN  /\ tests' = <<test>> \o tests
           /\ last' = Returned("create_benchmark_test", test_type, test)
    /\ UNCHANGED now

create_benchmark_test(test_type, scenario, complexity) ==
    /\ Len(tests) < MaxTests
    /\ LET test == NewTest(now, test_type, scenario, complexity)
       IN  /\ tests' = Append(tests, test)
           /\ last' = Returned("create_benchmark_test", test_type, test)
    /\ UNCHANGED now

run_ai_benchmark(test_id) ==
    LET i == _get_test(tests, test_id)
    IN  IF i = 0 THEN
            /\ last' = Returned("run_ai_benchmark", test_id, NotFound)
            /\ UNCHANGED <<tests, now>>
        ELSE
            \E ticks \in 0..1 :
                /\ now + ticks <= MaxClock
                /\ now' = now + ticks
                /\ LET result == AiResult(tests[i]["test_type"],
                                          RatSub(TimeNow(now'), TimeNow(now)))
                       t1 == Put(tests[i], "ai_results", result)
                       t2 == Put(t1, "ai_completed_at", IsoFormat(now'))
                   IN  /\ tests' = [tests EXCEPT ![i] = t2]
                       /\ last' = Returned("run_ai_benchmark", test_id, result)

record_human_results(test_id, human_results) ==
    LET i == _get_test(tests, test_id)
    IN  IF i = 0 THEN
            /\ last' = Returned("record_human_results", test_id, NotFound)
            /\ UNCHANGED <<tests, now>>
        ELSE
            LET t1 == Put(tests[i], "human_results", human_results)
                t2 == Put(t1, "human_completed_at", IsoFormat(now))
                t3 == Put(t2, "status", "completed")
            IN  /\ UNCHANGED now
                /\ IF ComparisonRaises(t3) THEN
                       /\ tests' = [tests EXCEPT ![i] = t3]
                       /\ last' = Raised("record_human_results", test_id, AttributeError)
                   ELSE
                       LET comparison == _calculate_comparison(t3)
                       IN  /\ tests' = [tests EXCEPT ![i] = Put(t3, "comparison", comparison)]
                           /\ last' = Returned("record_human_results", test_id, comparison)

\* the wall clock advances between calls
Tick ==
    /\ now < MaxClock
    /\ now' = now + 1
    /\ UNCHANGED <<tests, last, calls>>

\* one more call reaches the registry
Call == calls < MaxCalls /\ calls' = calls + 1

CreateStep ==
    /\ Call
    /\ \E test_type \in TestTypes, scenario \in Scenarios, complexity \in Complexities :
            create_benchmark_test(test_type, scenario, complexity)

RunAiStep == Call /\ \E test_id \in IdArgs : run_ai_benchmark(test_id)

RecordHumanStep ==
    /\ Call
    /\ \E test_id \in IdArgs, human_results \in HumanInputs :
            record_human_results(test_id, human_results)

Next == CreateStep \/ RunAiStep \/ RecordHumanStep \/ Tick

Spec == Init /\ [][Next]_vars

(* ----------------------------- queries --------------------------------- *)

\* get_all_tests: the list itself
get_all_tests(ts) == ts

Max(a, b) == IF a < b THEN b ELSE a

\* sum(xs), from 0
RECURSIVE Sum(_)
Sum(xs) ==
    IF xs = <<>> THEN RatInt(0)
    ELSE RatAdd(Sum(SubSeq(xs, 1, Len(xs) - 1)), xs[Len(xs)])

\* f"{x:.1f}" of a non-negative x: one decimal, nearest, ties to even
Format1f(x) ==
    LET n == x.n * 10
        q == n \div x.d
        r == n % x.d
        tenths == IF 2 * r < x.d THEN q
                  ELSE IF 2 * r > x.d THEN q + 1
                  ELSE IF q % 2 = 0 THEN q ELSE q + 1
    IN  ToString(tenths \div 10) \o "." \o ToString(tenths % 10)

Comparison(t) == Get(t, "comparison", EmptyDict)

\* the tests whose comparison is truthy
Compared(ts) == SelectSeq(ts, LAMBDA t : Truthy(t, "comparison"))

ai_wins(ts) ==
    Cardinality({i \in 1..Len(ts) : GetIs(Comparison(ts[i]), "overall_winner", "AI")})

\* human_wins over the compared tests only
human_wins_compared(ts) == Len(Compared(ts)) - ai_wins(ts)

human_wins(ts) == Len(ts) - ai_wins(ts)

\* ai_win_rate over the compared tests only
ai_win_rate_compared(ts) == Rat(ai_wins(ts), Max(Len(Compared(ts)), 1))

ai_win_rate(ts) == Rat(ai_wins(ts), Max(Len(ts), 1))

avg_speed_improvement(ts) ==
    LET Speed(t) == Get(Comparison(t), "speed_multiplier", RatInt(0))
        compared == Compared(ts)
    IN  RatDiv(Sum([i \in 1..Len(compared) |-> Speed(compared[i])]),
               RatInt(Max(Len(compared), 1)))

total_cost_savings(ts) ==
    LET Savings(t) == Get(Get(Comparison(t), "cost_comparison", EmptyDict),
                          "savings", RatInt(0))
    IN  Sum([i \in 1..Len(ts) |-> Savings(ts[i])])

get_leaderboard(ts) ==
    [total_tests |-> Len(ts),
     ai_wins |-> ai_wins(ts),
     human_wins |-> human_wins(ts),
     ai_win_rate |-> ai_win_rate(ts),
     average_speed_improvement |-> Format1f(avg_speed_improvement(ts)) \o "x faster",
     total_cost_savings |-> total_cost_savings(ts)]

(* ------------------------------ claims --------------------------------- *)

\* the outcome the specification names for a human result recorded too early
IncompleteStateError == [exception |-> "IncompleteStateError"]

\* the test the last call addressed: its position, 0 when the id is not held
LastTest == _get_test(tests, last.arg)

\* the last call was op and it found a test
LastCallOn(op) == last.op = op /\ LastTest # 0

\* the write-once fields of a test, and whether one holds a value
ResultKeys == {"ai_results", "human_results"}
WriteOnceKeys == ResultKeys \cup {"comparison", "ai_completed_at", "human_completed_at"}
Holds(t, k) == k \in DOMAIN t /\ (k \in ResultKeys => t[k] # None)

\* C1: record_human_results on a test without ai_results fails with
\* IncompleteStateError and leaves human_results unset, status pending and no
\* comparison stored.
C1_HumanBeforeAiRejected ==
    (LastCallOn("record_human_results") /\ ~Holds(tests[LastTest], "ai_results")) =>
        /\ last.raised
        /\ last.value = IncompleteStateError
        /\ ~Holds(tests[LastTest], "human_results")
        /\ tests[LastTest]["status"] = "pending"
        /\ ~Holds(tests[LastTest], "comparison")

\* C2: once ai_results, human_results, comparison, ai_completed_at or
\* human_completed_at of a test holds a value, no later call changes it.
C2_WriteOnce ==
    [][\A i \in 1..Len(tests) : \A k \in WriteOnceKeys :
          Holds(tests[i], k) => (Holds(tests'[i], k) /\ tests'[i][k] = tests[i][k])]_vars

\* C3: any two distinct tests of the registry have distinct ids.
C3_UniqueIds ==
    \A i, j \in 1..Len(tests) : i # j => tests[i]["test_id"] # tests[j]["test_id"]

\* status is pending exactly while a result is missing
StatusDerived ==
    \A i \in 1..Len(tests) :
        tests[i]["status"] =
            IF Holds(tests[i], "ai_results") /\ Holds(tests[i], "human_results")
            THEN "completed" ELSE "pending"

\* C4: status is pending in every state where ai_results or human_results is
\* absent, completed in every state where both are present, and once
\* completed never returns to pending.
C4_StatusLifecycle ==
    /\ []StatusDerived
    /\ [][\A i \in 1..Len(tests) :
             tests[i]["status"] = "completed" => tests'[i]["status"] = "completed"]_vars

\* C5: a test that has a comparison stored has both ai_results and
\* human_results present.
C5_ComparisonNeedsBothResults ==
    \A i \in 1..Len(tests) :
        Holds(tests[i], "comparison") =>
            Holds(tests[i], "ai_results") /\ Holds(tests[i], "human_results")

\* a comparison has been stored by record_human_results
C5_Witness ==
    /\ LastCallOn("record_human_results")
    /\ ~last.raised
    /\ Holds(tests[LastTest], "comparison")

\* some test of the registry holds this id
IdHeld(test_id) == \E i \in 1..Len(tests) : tests[i]["test_id"] = test_id

\* C6: run_ai_benchmark and record_human_results on an id that no test holds
\* return the not-found error and leave the registry unchanged.
C6_NotFoundLeavesRegistry ==
    [][\A test_id \in IdArgs :
          (/\ ~IdHeld(test_id)
           /\ \/ run_ai_benchmark(test_id)
              \/ \E human_results \in HumanInputs :
                    record_human_results(test_id, human_results))
          => (/\ tests' = tests
              /\ ~last'.raised
              /\ last'.value = [error |-> "Test not found"])]_vars

\* a call on an id nobody holds has returned, with tests in the registry
C6_Witness ==
    /\ last.op \in {"run_ai_benchmark", "record_human_results"}
    /\ ~IdHeld(last.arg)
    /\ tests # <<>>

\* the tests with a comparison stored, and those among them the AI won
WithComparison == {i \in 1..Len(tests) : Holds(tests[i], "comparison")}
WonByAi == {i \in WithComparison : tests[i]["comparison"]["overall_winner"] = "AI"}

C8_WinRate ==
    LET lb == get_leaderboard(tests)
        r == lb.ai_win_rate
    IN  /\ r.d > 0
        /\ 0 <= r.n
        /\ r.n <= r.d
        /\ lb.total_tests > 0 => r.n * lb.total_tests = lb.ai_wins * r.d
        /\ tests = <<>> => r.n = 0

\* a registry whose win rate is strictly between 0 and 1
C8_Witness ==
    /\ tests # <<>>
    /\ get_leaderboard(tests).ai_win_rate = Rat(1, 2)

\* record_human_results has just computed and returned a comparison
ComparisonComputed == LastCallOn("record_human_results") /\ ~last.raised

\* the records the last comparison was computed from
LastAi == tests[LastTest]["ai_results"]
LastHuman == tests[LastTest]["human_results"]

HasKey(d, k) == k \in DOMAIN d

\* C9 as stated: speed_multiplier is >= 0 and is the human record's
\* time_taken divided by max(the AI record's time_taken, 0.1), for every
\* pair of records.
C9_SpeedMultiplierOfTimes ==
    ComparisonComputed =>
        /\ HasKey(LastAi, "time_taken")
        /\ HasKey(LastHuman, "time_taken")
        /\ last.value.speed_multiplier.n >= 0
        /\ RatMul(last.value.speed_multiplier,
                  RatMax(LastAi["time_taken"], Rat(1, 10))) = LastHuman["time_taken"]

\* C9 amended: speed_multiplier is >= 0 and is H / max(A, 0.1), where H and
\* A are the time_taken of the human and the AI record, each read as 1 second
\* when the record has no time_taken.
C9_SpeedMultiplierWithDefaults ==
    ComparisonComputed =>
        LET h == IF HasKey(LastHuman, "time_taken") THEN LastHuman["time_taken"]
                 ELSE RatInt(1)
            a == IF HasKey(LastAi, "time_taken") THEN LastAi["time_taken"]
                 ELSE RatInt(1)
            m == last.value.speed_multiplier
        IN  /\ tests[LastTest]["comparison"] = last.value
            /\ m.d > 0
            /\ m.n >= 0
            /\ RatMul(m, RatMax(a, Rat(1, 10))) = h

\* AI 5 s against human 10800 s gives 2160
C9_Witness ==
    /\ ComparisonComputed
    /\ HasKey(LastAi, "time_taken")
    /\ LastAi["time_taken"] = RatInt(5)
    /\ HasKey(LastHuman, "time_taken")
    /\ LastHuman["time_taken"] = RatInt(10800)
    /\ last.value.speed_multiplier = RatInt(2160)

\* C10 as stated: speed_advantage is "AI" exactly when the AI record's
\* time_taken is strictly lower than the human record's, winner is "AI"
\* exactly when the AI record's accuracy_score is strictly greater than the
\* human record's, and the field is "Human" in every other case.
C10_WinnersOfFields ==
    ComparisonComputed =>
        LET c == last.value
            faster == /\ HasKey(LastAi, "time_taken")
                      /\ HasKey(LastHuman, "time_taken")
                      /\ RatLess(LastAi["time_taken"], LastHuman["time_taken"])
            better == /\ HasKey(LastAi, "accuracy_score")
                      /\ HasKey(LastHuman, "accuracy_score")
                      /\ RatLess(LastHuman["accuracy_score"], LastAi["accuracy_score"])
        IN  /\ c.speed_advantage = (IF faster THEN "AI" ELSE "Human")
            /\ c.accuracy_comparison.winner = (IF better THEN "AI" ELSE "Human")

\* C10 amended: speed_advantage is "AI" exactly when the AI time_taken (0
\* when the record has none) is strictly lower than the human time_taken
\* (999 s when the record has none), winner is "AI" exactly when the AI
\* accuracy_score (0 when absent) is strictly greater than the human
\* accuracy_score (0 when absent), and the field is "Human" in every other
\* case, every tie included.
C10_WinnersWithDefaults ==
    ComparisonComputed =>
        LET c == last.value
            Field(d, k, default) == IF HasKey(d, k) THEN d[k] ELSE default
            faster == RatLess(Field(LastAi, "time_taken", RatInt(0)),
                              Field(LastHuman, "time_taken", RatInt(999)))
            better == RatLess(Field(LastHuman, "accuracy_score", RatInt(0)),
                              Field(LastAi, "accuracy_score", RatInt(0)))
        IN  /\ tests[LastTest]["comparison"] = c
            /\ c.speed_advantage = (IF faster THEN "AI" ELSE "Human")
            /\ c.accuracy_comparison.winner = (IF better THEN "AI" ELSE "Human")

\* a tie on both fields goes to the human
C10_Witness ==
    /\ ComparisonComputed
    /\ HasKey(LastAi, "time_taken") /\ HasKey(LastHuman, "time_taken")
    /\ LastAi["time_taken"] = LastHuman["time_taken"]
    /\ HasKey(LastAi, "accuracy_score") /\ HasKey(LastHuman, "accuracy_score")
    /\ LastAi["accuracy_score"] = LastHuman["accuracy_score"]
    /\ last.value.speed_advantage = "Human"
    /\ last.value.accuracy_comparison.winner = "Human"

\* the time a record carries, none counting as no time at all
TimeOrZero(d) == IF HasKey(d, "time_taken") THEN d["time_taken"] ELSE RatInt(0)

\* C11: ai_cost is the AI time_taken times 0.01, human_cost is the human
\* time_taken / 3600 times 150, savings is human_cost - ai_cost and is
\* negative whenever the AI cost exceeds the human cost.
C11_CostComparison ==
    ComparisonComputed =>
        LET cost == last.value.cost_comparison
        IN  /\ tests[LastTest]["comparison"] = last.value
            /\ RatMul(cost.ai_cost, RatInt(100)) = TimeOrZero(LastAi)
            /\ RatMul(cost.human_cost, RatInt(3600)) = RatMul(TimeOrZero(LastHuman), RatInt(150))
            /\ RatAdd(cost.savings, cost.ai_cost) = cost.human_cost
            /\ RatLess(cost.human_cost, cost.ai_cost) <=> cost.savings.n < 0

\* AI 5 s against human 10800 s saves 449.95
C11_Witness ==
    /\ ComparisonComputed
    /\ TimeOrZero(LastAi) = RatInt(5)
    /\ TimeOrZero(LastHuman) = RatInt(10800)
    /\ last.value.cost_comparison.savings = Rat(44995, 100)

\* the fields create_benchmark_test gives a test, which name it from then on
CreatedKeys == {"test_id", "test_type", "scenario", "complexity", "created_at"}
Created(t) == [k \in CreatedKeys |-> t[k]]

\* C12: get_all_tests returns every test ever created, in creation order,
\* and no call removes one: a creation puts the test it returns at the end
\* of the list, and every other step leaves the listed tests in place.
C12_ListInCreationOrder ==
    [][LET before == get_all_tests(tests)
           after == get_all_tests(tests')
       IN  /\ Len(after) >= Len(before)
           /\ \A i \in 1..Len(before) : Created(after[i]) = Created(before[i])
           /\ Len(after) > Len(before) =>
                 /\ last'.op = "create_benchmark_test"
                 /\ after = Append(before, last'.value)
           /\ (last'.op = "create_benchmark_test" /\ last' # last) =>
                 after = Append(before, last'.value)
           /\ tests' = tests => after = before]_vars

\* two tests created at different times are listed, and a call has since
\* written to the first
C12_Witness ==
    /\ Len(get_all_tests(tests)) = 2
    /\ tests[1]["created_at"] # tests[2]["created_at"]
    /\ tests[1]["test_type"] # tests[2]["test_type"]
    /\ last.op = "run_ai_benchmark"
    /\ Holds(get_all_tests(tests)[1], "ai_results")

\* the kinds run_ai_benchmark has a metric schema for
RecognizedKinds == {"tax_preparation", "audit_defense", "research"}

\* the last call found a test of a kind outside the recognized ones
LastOnUnknownKind(op) ==
    LastCallOn(op) /\ tests[LastTest]["test_type"] \notin RecognizedKinds

\* C13: for a kind outside the recognized ones, create_benchmark_test
\* registers a pending test, run_ai_benchmark on it does not fail and stores
\* a record with no time_taken and no accuracy_score as ai_results, and a
\* following record_human_results completes the test and stores a comparison.
C13_UnknownKindDegrades ==
    /\ (last.op = "create_benchmark_test" /\ last.arg \notin RecognizedKinds) =>
          /\ ~last.raised
          /\ tests # <<>>
          /\ tests[Len(tests)] = last.value
          /\ last.value["test_type"] = last.arg
          /\ last.value["status"] = "pending"
          /\ ~Holds(last.value, "ai_results")
          /\ ~Holds(last.value, "human_results")
    /\ LastOnUnknownKind("run_ai_benchmark") =>
          /\ ~last.raised
          /\ Holds(tests[LastTest], "ai_results")
          /\ LastAi = last.value
          /\ ~HasKey(LastAi, "time_taken")
          /\ ~HasKey(LastAi, "accuracy_score")
    /\ (LastOnUnknownKind("record_human_results") /\ Holds(tests[LastTest], "ai_results")) =>
          /\ ~last.raised
          /\ LastHuman # None
          /\ tests[LastTest]["status"] = "completed"
          /\ Holds(tests[LastTest], "comparison")
          /\ tests[LastTest]["comparison"] = last.value

\* a test of an unknown kind has been created, run and completed
C13_Witness ==
    /\ LastOnUnknownKind("record_human_results")
    /\ Holds(tests[LastTest], "ai_results")
    /\ ~HasKey(LastAi, "time_taken")
    /\ Holds(tests[LastTest], "comparison")
    /\ tests[LastTest]["status"] = "completed"

\* C14: every stored comparison equals the comparison formula applied to the
\* ai_results and human_results stored in the same test.
C14_ComparisonMatchesStored ==
    \A i \in 1..Len(tests) :
        Holds(tests[i], "comparison") =>
            /\ ~ComparisonRaises(tests[i])
            /\ tests[i]["comparison"] = _calculate_comparison(tests[i])

\* a call on test_id changes no test but the earliest one holding test_id
FrameOf(test_id) ==
    \A j \in 1..Len(tests) :
        (\E i \in 1..(j - 1) : tests[i]["test_id"] = test_id) \/ tests[j]["test_id"] # test_id
            => tests'[j] = tests[j]

\* every test is the one its own id finds
OwnIdReaches ==
    \A i \in 1..Len(tests) : _get_test(tests, tests[i]["test_id"]) = i

\* C15: a run_ai_benchmark or record_human_results call on an id modifies
\* only the earliest-created test holding that id and leaves every other
\* test unchanged, and each test of the registry is reached by its own id
\* (so that it can receive both results and become completed).
C15_CallsReachEveryTest ==
    /\ [][\A test_id \in IdArgs :
             (\/ run_ai_benchmark(test_id)
              \/ \E human_results \in HumanInputs :
                    record_human_results(test_id, human_results))
             => (Len(tests') = Len(tests) /\ FrameOf(test_id))]_vars
    /\ []OwnIdReaches

====
